---- MODULE Spec2Model ----
(***************************************************************************)
(* A model of topcorr (src/topcorr/topcorr.py): the graph builders tmfg,   *)
(* pmfg, mst and knn, and the matrix transforms threshold and              *)
(* dependency_network.  Every builder is one call: pc walks from "start"   *)
(* through the builder's loop to "done", or to "raised" when the Python    *)
(* code raises (err names the exception).  Each builder has a               *)
(* specification of its own (MstSpec, TmfgSpec, ...) whose Init draws the  *)
(* call's arguments.                                                       *)
(*                                                                         *)
(* numpy.argsort is called with its default kind (quicksort), which is not *)
(* stable: the order of equal values is not fixed by the code.  Wherever   *)
(* the code takes "the next index in descending order" the model takes any *)
(* index whose value is maximal among those left.                          *)
(***************************************************************************)
EXTENDS Integers, Sequences, FiniteSets, TLC

VARIABLES
    pc,                 \* position of the running call
    err,                \* "none", or the exception the call raised
    p,                  \* corr.shape[0]
    corr,               \* the matrix argument, corr[i][j], 0-based
    G,                  \* the networkx graph under construction
    absolute,           \* tmfg/threshold: the absolute flag
    faces,              \* tmfg: the set of frozensets
    not_in,             \* tmfg: nodes not yet placed
    starters_set,       \* tmfg: nodes placed
    vals,               \* pmfg/mst: flat indices the for loop has not reached
    components,         \* mst: the list of sets
    k,                  \* knn: the k argument
    knn_i,              \* knn: the outer loop's i
    threshold,          \* threshold: the threshold argument
    binary,             \* threshold: the binary flag
    out1,               \* threshold(corr, ...)
    out2,               \* threshold(threshold(corr, ...), ...)
    D,                  \* dependency_network: the p x p x p array
    dependency_network  \* dependency_network: the result array

vars == <<pc, err, p, corr, G, absolute, faces, not_in, starters_set, vals,
          components, k, knn_i, threshold, binary, out1, out2, D,
          dependency_network>>

tmfgVars == <<absolute, faces, not_in, starters_set>>
sortVars == <<vals, components>>
knnVars  == <<k, knn_i>>
thrVars  == <<threshold, binary, out1, out2>>
depVars  == <<D, dependency_network>>

(***************************************************************************)
(* Matrices and graphs                                                     *)
(***************************************************************************)
Nodes(n) == 0 .. (n - 1)

Abs(x) == IF x < 0 THEN -x ELSE x

\* The unordered pairs {a, b}, a # b, of a set of nodes.
Pairs(S) == {e \in SUBSET S : Cardinality(e) = 2}

\* All symmetric n x n matrices with off-diagonal entries in W and the
\* diagonal d.
SymMatrices(n, W, d) ==
    {[a \in Nodes(n) |-> [b \in Nodes(n) |->
          IF a = b THEN d ELSE u[{a, b}]]] : u \in [Pairs(Nodes(n)) -> W]}

\* The symmetric Toeplitz matrices among them: the entry depends on the
\* distance |a - b| alone.
ToeplitzMatrices(n, W, d) ==
    {[a \in Nodes(n) |-> [b \in Nodes(n) |->
          IF a = b THEN d ELSE u[Abs(a - b)]]] : u \in [1 .. (n - 1) -> W]}

\* Symmetric matrices that rank the pairs in many orders, with few ties: the
\* entry of the pair i < j is (i * n + j) * m modulo the prime OrderMod, and
\* the diagonal is OrderMod, above every other entry.
Orders == 12
OrderMod == 16 + 1

OrderMatrix(n, m) ==
    [a \in Nodes(n) |-> [b \in Nodes(n) |->
        IF a = b THEN OrderMod
        ELSE LET lo == IF a < b THEN a ELSE b
                 hi == IF a < b THEN b ELSE a
             IN  ((lo * n + hi) * m) % OrderMod]]

OrderMatrices(n) == {OrderMatrix(n, m) : m \in 1 .. Orders}

\* The matrices mst and knn are checked on: every symmetric matrix over W up
\* to 4 x 4, and the matrices of OrderMatrices above that size.
InputMatrices(n, W, d) ==
    IF n <= 4 THEN SymMatrices(n, W, d) ELSE OrderMatrices(n)

\* nx.Graph(): a node set and a weight per edge.
EmptyGraph == [nodes |-> {}, weight |-> <<>>]

Edges(g) == DOMAIN g.weight

add_nodes_from(g, S) == [g EXCEPT !.nodes = @ \cup S]

\* Graph.add_edge(u, v, weight=w): adds the end points, and sets the weight
\* of the edge (anew if the edge is there already).
add_edge(g, u, v, w) ==
    [nodes  |-> g.nodes \cup {u, v},
     weight |-> [e \in Edges(g) \cup {{u, v}} |->
                     IF e = {u, v} THEN w ELSE g.weight[e]]]

remove_edge(g, u, v) ==
    [g EXCEPT !.weight = [e \in Edges(g) \ {{u, v}} |-> g.weight[e]]]

Degree(g, v) == Cardinality({e \in Edges(g) : v \in e})

\* The nodes reachable from the set R along the edges E.
RECURSIVE Reach(_, _)
Reach(R, E) ==
    LET R2 == R \cup UNION {e \in E : e \cap R # {}}
    IN  IF R2 = R THEN R ELSE Reach(R2, E)

Connected(V, E) == V = {} \/ \E v \in V : Reach({v}, E) \cap V = V

(***************************************************************************)
(* Planarity (nx.check_planarity), by Kuratowski's theorem: a graph is not *)
(* planar iff it holds a subdivision of K5 or of K3,3.  A subdivision      *)
(* either spans V as K5 or K3,3 itself, or misses a node (delete it), or   *)
(* has a node v of degree 2 between u and w (take v out and join u, w).    *)
(***************************************************************************)
HasK5(V, E) == Cardinality(V) = 5 /\ Pairs(V) \subseteq E

HasK33(V, E) ==
    /\ Cardinality(V) = 6
    /\ \E A \in SUBSET V :
          /\ Cardinality(A) = 3
          /\ \A a \in A : \A b \in V \ A : {a, b} \in E

RECURSIVE NonPlanar(_, _)
NonPlanar(V, E) ==
    /\ Cardinality(V) >= 5
    /\ Cardinality(E) >= 9
    /\ \/ HasK5(V, E)
       \/ HasK33(V, E)
       \/ \E v \in V :
             LET E1 == {e \in E : v \notin e}
                 N  == {u \in V \ {v} : {u, v} \in E}
             IN  \/ NonPlanar(V \ {v}, E1)
                 \/ \E u \in N : \E w \in N \ {u} :
                       {u, w} \notin E1 /\ NonPlanar(V \ {v}, E1 \cup {{u, w}})

check_planarity(g) == ~NonPlanar(g.nodes, Edges(g))

RECURSIVE SumOver(_, _)
SumOver(S, f) ==
    IF S = {} THEN 0
    ELSE LET x == CHOOSE y \in S : TRUE
         IN  f[x] + SumOver(S \ {x}, f)

(***************************************************************************)
(* np.argsort(a)[::-1], read one element at a time: the indices that can   *)
(* come next when S is the set of indices not yet read.                    *)
(***************************************************************************)
ArgsortAscNext(S, a) == {v \in S : \A u \in S : a[v] <= a[u]}

ArgsortDescNext(S, a) == {v \in S : \A u \in S : a[u] <= a[v]}

\* corr.flatten() and np.unravel_index(v, (p, p))
Flatten(c, n) == [v \in 0 .. (n * n - 1) |-> c[v \div n][v % n]]

unravel_index(v, n) == <<v \div n, v % n>>

(***************************************************************************)
(* mst                                                                     *)
(***************************************************************************)
MstMaxP == 5

\* Correlations in halves: 2 is 1.0 (the diagonal), off the diagonal -0.5, 0
\* or 0.5.
MstWeights == {-1, 0, 1}

_in_same_component(comps, a, b) ==
    \E c \in 1 .. Len(comps) : a \in comps[c] /\ b \in comps[c]

DelAt(s, n) == [x \in 1 .. (Len(s) - 1) |-> IF x < n THEN s[x] ELSE s[x + 1]]

\* A merge that forgets the set of j instead of uniting it with the set of i.
MergeDropping(comps, a, b) ==
    LET c2_i == CHOOSE c \in 1 .. Len(comps) : b \in comps[c]
    IN  DelAt(comps, c2_i)

\* c1 |= c2 changes the set in the list; del components[c2_i] then drops c2.
_merge_components(comps, a, b) ==
    LET c1_i == CHOOSE c \in 1 .. Len(comps) : a \in comps[c]
        c2_i == CHOOSE c \in 1 .. Len(comps) : b \in comps[c]
        merged == [comps EXCEPT ![c1_i] = comps[c1_i] \cup comps[c2_i]]
    IN  DelAt(merged, c2_i)

\* The order without the [::-1]: ascending.
MstOrderAscending(S, c, n) == ArgsortAscNext(S, Flatten(c, n))

\* The candidates the for loop of mst can read next.
MstOrder(S, c, n) == ArgsortDescNext(S, Flatten(c, n))

IdleTmfg == absolute = FALSE /\ faces = {} /\ not_in = {} /\ starters_set = {}
IdleSort == vals = {} /\ components = <<>>
IdleKnn  == k = 0 /\ knn_i = 0
IdleThr  == threshold = 0 /\ binary = FALSE /\ out1 = <<>> /\ out2 = <<>>
IdleDep  == D = <<>> /\ dependency_network = <<>>

MstInit ==
    /\ pc = "start"
    /\ err = "none"
    /\ p \in 1 .. MstMaxP
    /\ corr \in InputMatrices(p, MstWeights, 2)
    /\ G = EmptyGraph
    /\ IdleTmfg /\ IdleSort /\ IdleKnn /\ IdleThr /\ IdleDep

\* lines 239-242
MstStart ==
    /\ pc = "start"
    /\ vals' = 0 .. (p * p - 1)
    /\ components' = [x \in 1 .. p |-> {x - 1}]
    /\ pc' = "loop"
    /\ UNCHANGED <<err, p, corr, G, tmfgVars, knnVars, thrVars, depVars>>

\* lines 243-254: one iteration of the for loop
MstIter ==
    /\ pc = "loop"
    /\ \E v \in MstOrder(vals, corr, p) :
         LET idx_i == unravel_index(v, p)[1]
             idx_j == unravel_index(v, p)[2]
         IN  /\ vals' = vals \ {v}
             /\ IF idx_i = idx_j \/ _in_same_component(components, idx_i, idx_j)
                THEN UNCHANGED <<G, components, pc>>
                ELSE /\ G' = add_edge(G, idx_i, idx_j, corr[idx_i][idx_j])
                     /\ components' = _merge_components(components, idx_i, idx_j)
                     /\ pc' = IF Cardinality(Edges(G')) = p - 1
                              THEN "done" ELSE "loop"
    /\ UNCHANGED <<err, p, corr, tmfgVars, knnVars, thrVars, depVars>>

\* line 256 after the for loop ran out
MstReturn ==
    /\ pc = "loop"
    /\ vals = {}
    /\ pc' = "done"
    /\ UNCHANGED <<err, p, corr, G, tmfgVars, sortVars, knnVars, thrVars, depVars>>

MstNext == MstStart \/ MstIter \/ MstReturn

MstSpec == MstInit /\ [][MstNext]_vars

(***************************************************************************)
(* tmfg                                                                    *)
(***************************************************************************)
TmfgMaxP == 7

\* One-factor correlation matrices: corr[i][j] = load[i] * load[j] with the
\* loads in halves, so that One stands for the correlation 1.0.
TmfgLoads == {-2, 1, 2}
One == 2 * 2

FactorMatrices(n) ==
    {[a \in Nodes(n) |-> [b \in Nodes(n) |->
          IF a = b THEN One ELSE l[a] * l[b]]] : l \in [Nodes(n) -> TmfgLoads]}

\* The matrices of OrderMatrices brought into -One .. One, unit diagonal.
SignedOrderMatrices(n) ==
    {[a \in Nodes(n) |-> [b \in Nodes(n) |->
          IF a = b THEN One ELSE (c[a][b] \div 2) - One]] : c \in OrderMatrices(n)}

\* The matrices tmfg is checked on: the one-factor matrices up to 6 x 6, and
\* the matrices of SignedOrderMatrices above that size.
TmfgMatrices(n) ==
    IF n <= 6 THEN FactorMatrices(n) ELSE SignedOrderMatrices(n)

\* lines 76-79
weight_corr == [a \in Nodes(p) |-> [b \in Nodes(p) |->
                   IF absolute THEN Abs(corr[a][b]) ELSE corr[a][b]]]

\* line 82: weight_corr.sum(axis=0)
degree_centrality ==
    [b \in Nodes(p) |-> SumOver(Nodes(p), [a \in Nodes(p) |-> weight_corr[a][b]])]

\* The ranking without the [::-1]: the least central nodes first.
TmfgRankingAscending(S, cent) == ArgsortAscNext(S, cent)

\* line 83: the nodes np.argsort(degree_centrality)[::-1] can rank next
TmfgRanking(S, cent) == ArgsortDescNext(S, cent)

\* line 84: the values ind[0:4] can take
RECURSIVE Ranked(_, _, _)
Ranked(S, cent, n) ==
    IF n = 0 THEN {<<>>}
    ELSE UNION {{<<v>> \o r : r \in Ranked(S \ {v}, cent, n - 1)} :
                   v \in TmfgRanking(S, cent)}

Range(f) == {f[x] : x \in DOMAIN f}

\* lines 84-85: the values ind[0:4] can take, one for each value of
\* set(ind[0:4]) (lines 94-102 build the same tetrahedron and faces from
\* every order of the same 4 nodes).
StarterRankings ==
    LET R == Ranked(Nodes(p), degree_centrality, 4)
    IN  {CHOOSE r \in R : Range(r) = T : T \in {Range(r) : r \in R}}

\* lines 55-56 (the checks of lines 50-54 pass on every call tmfg makes: new
\* is a scalar and old_set has 2 or 3 members)
RECURSIVE _add_triangular_face(_, _, _, _)
_add_triangular_face(g, new, old_set, C) ==
    IF old_set = {} THEN g
    ELSE LET j == CHOOSE x \in old_set : TRUE
         IN  _add_triangular_face(add_edge(g, new, j, C[new][j]), new,
                                  old_set \ {j}, C)

\* New faces added while the consumed face is left in the set.
CalculateNewFacesKeepingOld(fs, new, old_set) ==
    fs \cup {{new} \cup e : e \in Pairs(old_set)}

\* lines 23-27
_calculate_new_faces(fs, new, old_set) ==
    (fs \ {old_set}) \cup {{new} \cup e : e \in Pairs(old_set)}

\* line 116: most_related, per node not yet placed
most_related(face) ==
    [n \in not_in |-> SumOver(face, [m \in face |-> weight_corr[m][n]])]

\* lines 107-123: the (face, node) pairs the scan can end with.  max_corr
\* starts at -1 and a face replaces the best so far only when strictly
\* greater, so the scan ends with a face of greatest curr_corr, if that is
\* more than -1, and with max_i = -1 otherwise.
BestInsertions ==
    {fn \in faces \X not_in :
        /\ fn[2] \in ArgsortDescNext(not_in, most_related(fn[1]))
        /\ most_related(fn[1])[fn[2]] > -One
        /\ \A f \in faces : \A n \in not_in :
              most_related(f)[n] <= most_related(fn[1])[fn[2]]}

TmfgInit ==
    /\ pc = "start"
    /\ err = "none"
    /\ p \in 0 .. TmfgMaxP
    /\ corr \in TmfgMatrices(p)
    /\ absolute \in BOOLEAN
    /\ G = EmptyGraph
    /\ faces = {} /\ not_in = {} /\ starters_set = {}
    /\ IdleSort /\ IdleKnn /\ IdleThr /\ IdleDep

\* lines 74-102.  With p < 4 the first ind[3] (or ind[1]) of line 94 is out
\* of range.
TmfgStart ==
    /\ pc = "start"
    /\ IF p < 4
       THEN /\ err' = "IndexError"
            /\ pc' = "raised"
            /\ UNCHANGED <<G, faces, not_in, starters_set>>
       ELSE \E ind \in StarterRankings :
              LET g0 == add_nodes_from(EmptyGraph, Nodes(p))
                  g1 == _add_triangular_face(g0, ind[1], {ind[2], ind[4]}, corr)
                  g2 == _add_triangular_face(g1, ind[2], {ind[3], ind[4]}, corr)
                  g3 == _add_triangular_face(g2, ind[1], {ind[3], ind[4]}, corr)
                  g4 == _add_triangular_face(g3, ind[3], {ind[2], ind[4]}, corr)
              IN  /\ starters_set' = {ind[1], ind[2], ind[3], ind[4]}
                  /\ not_in' = Nodes(p) \ starters_set'
                  /\ G' = g4
                  /\ faces' = {{ind[1], ind[2], ind[4]}, {ind[2], ind[3], ind[4]},
                               {ind[1], ind[3], ind[4]}, {ind[1], ind[2], ind[3]}}
                  /\ pc' = "loop"
                  /\ err' = err
    /\ UNCHANGED <<p, corr, absolute, sortVars, knnVars, thrVars, depVars>>

\* lines 104-128: one pass of the while loop.  When no face scored more than
\* -1, max_i is still the int -1 and set(max_i) of line 125 raises.
TmfgInsert ==
    /\ pc = "loop"
    /\ not_in # {}
    /\ IF BestInsertions = {}
       THEN /\ err' = "TypeError"
            /\ pc' = "raised"
            /\ UNCHANGED <<G, faces, not_in, starters_set>>
       ELSE \E fn \in BestInsertions :
              LET nodes_correlated_with == fn[1]
                  max_i == fn[2]
              IN  /\ starters_set' = starters_set \cup {max_i}
                  /\ not_in' = not_in \ starters_set'
                  /\ G' = _add_triangular_face(G, max_i, nodes_correlated_with, corr)
                  /\ faces' = _calculate_new_faces(faces, max_i, nodes_correlated_with)
                  /\ UNCHANGED <<pc, err>>
    /\ UNCHANGED <<p, corr, absolute, sortVars, knnVars, thrVars, depVars>>

\* line 130
TmfgReturn ==
    /\ pc = "loop"
    /\ not_in = {}
    /\ pc' = "done"
    /\ UNCHANGED <<err, p, corr, G, tmfgVars, sortVars, knnVars, thrVars, depVars>>

TmfgNext == TmfgStart \/ TmfgInsert \/ TmfgReturn

TmfgSpec == TmfgInit /\ [][TmfgNext]_vars

(***************************************************************************)
(* pmfg                                                                    *)
(***************************************************************************)
PmfgMaxP == 6

\* The candidates the for loop of pmfg can read next (line 146).
PmfgOrder(S, c, n) == ArgsortDescNext(S, Flatten(c, n))

\* The edge is added and never taken back.
AddEdgeUnchecked(g, a, b, w) == add_edge(g, a, b, w)

\* lines 156-158: the edge is added, and removed again when the graph is no
\* longer planar.
AddEdgeIfPlanar(g, a, b, w) ==
    LET g1 == add_edge(g, a, b, w)
    IN  IF check_planarity(g1) THEN g1 ELSE remove_edge(g1, a, b)

PmfgInit ==
    /\ pc = "start"
    /\ err = "none"
    /\ p \in 1 .. PmfgMaxP
    /\ corr \in OrderMatrices(p)
    /\ G = EmptyGraph
    /\ IdleTmfg /\ IdleSort /\ IdleKnn /\ IdleThr /\ IdleDep

\* lines 146-149
PmfgStart ==
    /\ pc = "start"
    /\ vals' = 0 .. (p * p - 1)
    /\ G' = add_nodes_from(EmptyGraph, Nodes(p))
    /\ pc' = "loop"
    /\ UNCHANGED <<err, p, corr, components, tmfgVars, knnVars, thrVars, depVars>>

\* lines 150-161: one iteration of the for loop
PmfgIter ==
    /\ pc = "loop"
    /\ \E v \in PmfgOrder(vals, corr, p) :
         LET idx_i == unravel_index(v, p)[1]
             idx_j == unravel_index(v, p)[2]
         IN  /\ vals' = vals \ {v}
             /\ IF idx_i = idx_j
                THEN UNCHANGED <<G, pc>>
                ELSE /\ G' = AddEdgeIfPlanar(G, idx_i, idx_j, corr[idx_i][idx_j])
                     /\ pc' = IF Cardinality(Edges(G')) = 3 * (p - 2)
                              THEN "done" ELSE "loop"
    /\ UNCHANGED <<err, p, corr, components, tmfgVars, knnVars, thrVars, depVars>>

\* line 163 after the for loop ran out
PmfgReturn ==
    /\ pc = "loop"
    /\ vals = {}
    /\ pc' = "done"
    /\ UNCHANGED <<err, p, corr, G, tmfgVars, sortVars, knnVars, thrVars, depVars>>

PmfgNext == PmfgStart \/ PmfgIter \/ PmfgReturn

PmfgSpec == PmfgInit /\ [][PmfgNext]_vars

(***************************************************************************)
(* knn                                                                     *)
(***************************************************************************)
KnnMaxP == 5

\* Correlations in halves, as for mst.
KnnWeights == {-1, 0, 1}

\* lines 367-376: the sets of nodes the inner loop can connect i to.  S holds
\* the nodes sort has not yielded yet and num counts the edges added.
RECURSIVE KnnTake(_, _, _, _, _)
KnnTake(S, edges, n, num, kk) ==
    IF num = kk \/ S = {} THEN {{}}
    ELSE UNION {IF j = n THEN KnnTake(S \ {j}, edges, n, num, kk)
                ELSE {{j} \cup r : r \in KnnTake(S \ {j}, edges, n, num + 1, kk)} :
                   j \in ArgsortDescNext(S, edges)}

\* An inner loop that counts i itself as one of the k.
RECURSIVE KnnTakeCountingSelf(_, _, _, _, _)
KnnTakeCountingSelf(S, edges, n, num, kk) ==
    IF num = kk \/ S = {} THEN {{}}
    ELSE UNION {IF j = n THEN KnnTakeCountingSelf(S \ {j}, edges, n, num + 1, kk)
                ELSE {{j} \cup r :
                         r \in KnnTakeCountingSelf(S \ {j}, edges, n, num + 1, kk)} :
                   j \in ArgsortDescNext(S, edges)}

KnnNeighboursCountingSelf(c, n, kk) ==
    KnnTakeCountingSelf(DOMAIN c, [a \in DOMAIN c |-> c[a][n]], n, 0, kk)

\* lines 367-369: edges = corr[:, i], then the inner loop from num = 0
KnnNeighbours(c, n, kk) ==
    KnnTake(DOMAIN c, [a \in DOMAIN c |-> c[a][n]], n, 0, kk)

RECURSIVE AddEdgesFrom(_, _, _, _)
AddEdgesFrom(g, n, S, c) ==
    IF S = {} THEN g
    ELSE LET j == CHOOSE x \in S : TRUE
         IN  AddEdgesFrom(add_edge(g, n, j, c[n][j]), n, S \ {j}, c)

KnnInit ==
    /\ pc = "start"
    /\ err = "none"
    /\ p \in 1 .. KnnMaxP
    /\ corr \in InputMatrices(p, KnnWeights, 2)
    /\ k \in 0 .. (p - 1)
    /\ knn_i = 0
    /\ G = EmptyGraph
    /\ IdleTmfg /\ IdleSort /\ IdleThr /\ IdleDep

\* lines 363-364: the graph starts without nodes
KnnStart ==
    /\ pc = "start"
    /\ G' = EmptyGraph
    /\ knn_i' = 0
    /\ pc' = "loop"
    /\ UNCHANGED <<err, p, corr, k, tmfgVars, sortVars, thrVars, depVars>>

\* lines 366-376: one iteration of the outer loop
KnnNode ==
    /\ pc = "loop"
    /\ knn_i < p
    /\ \E S \in KnnNeighbours(corr, knn_i, k) :
          G' = AddEdgesFrom(G, knn_i, S, corr)
    /\ knn_i' = knn_i + 1
    /\ UNCHANGED <<pc, err, p, corr, k, tmfgVars, sortVars, thrVars, depVars>>

\* line 377
KnnReturn ==
    /\ pc = "loop"
    /\ knn_i = p
    /\ pc' = "done"
    /\ UNCHANGED <<err, p, corr, G, k, knn_i, tmfgVars, sortVars, thrVars, depVars>>

KnnNext == KnnStart \/ KnnNode \/ KnnReturn

KnnSpec == KnnInit /\ [][KnnNext]_vars

(***************************************************************************)
(* threshold                                                               *)
(***************************************************************************)
ThrMax == 3
ThrSizes == {1, 2}

\* Entries and thresholds are in halves: ThrOne is the 1 that line 285
\* writes.
ThrOne == 2

\* A threshold that leaves the surviving entries as they are, whatever
\* binary says.
ThresholdNeverBinary(c, t, bin, abs) ==
    [a \in DOMAIN c |-> [b \in DOMAIN c[a] |->
        IF (IF abs THEN Abs(c[a][b]) ELSE c[a][b]) < t THEN 0 ELSE c[a][b]]]

\* lines 278-287
Threshold(c, t, bin, abs) ==
    LET cut == [a \in DOMAIN c |-> [b \in DOMAIN c[a] |->
                   IF (IF abs THEN Abs(c[a][b]) ELSE c[a][b]) < t
                   THEN 0 ELSE c[a][b]]]
    IN  IF bin
        THEN [a \in DOMAIN c |-> [b \in DOMAIN c[a] |->
                 IF Abs(cut[a][b]) > 0 THEN ThrOne ELSE cut[a][b]]]
        ELSE cut

ThrInit ==
    /\ pc = "start"
    /\ err = "none"
    /\ p \in ThrSizes
    /\ corr \in [Nodes(p) -> [Nodes(p) -> (-ThrMax) .. ThrMax]]
    /\ threshold \in (-ThrMax - 1) .. (ThrMax + 1)
    /\ binary \in BOOLEAN
    /\ absolute \in BOOLEAN
    /\ out1 = <<>> /\ out2 = <<>>
    /\ G = EmptyGraph
    /\ faces = {} /\ not_in = {} /\ starters_set = {}
    /\ IdleSort /\ IdleKnn /\ IdleDep

\* threshold(corr, threshold, binary, absolute)
ThrFirst ==
    /\ pc = "start"
    /\ out1' = Threshold(corr, threshold, binary, absolute)
    /\ pc' = "once"
    /\ UNCHANGED <<err, p, corr, G, tmfgVars, sortVars, knnVars, threshold,
                   binary, out2, depVars>>

\* threshold applied to the result, with the same threshold and flags
ThrSecond ==
    /\ pc = "once"
    /\ out2' = Threshold(out1, threshold, binary, absolute)
    /\ pc' = "done"
    /\ UNCHANGED <<err, p, corr, G, tmfgVars, sortVars, knnVars, threshold,
                   binary, out1, depVars>>

ThrNext == ThrFirst \/ ThrSecond

ThrSpec == ThrInit /\ [][ThrNext]_vars

(***************************************************************************)
(* dependency_network, in exact rational arithmetic: a number is <<n, d>>  *)
(* with d > 0 and n, d coprime.                                            *)
(***************************************************************************)
RECURSIVE GCD(_, _)
GCD(a, b) == IF b = 0 THEN a ELSE GCD(b, a % b)

Rat(n, d) ==
    LET g == GCD(Abs(n), Abs(d))
        sgn == IF d < 0 THEN -1 ELSE 1
    IN  <<(sgn * n) \div g, (sgn * d) \div g>>

RZero == <<0, 1>>
ROne == <<1, 1>>
RAdd(x, y) == Rat(x[1] * y[2] + y[1] * x[2], x[2] * y[2])
RSub(x, y) == Rat(x[1] * y[2] - y[1] * x[2], x[2] * y[2])
RMul(x, y) == Rat(x[1] * y[1], x[2] * y[2])
RDiv(x, y) == Rat(x[1] * y[2], x[2] * y[1])

\* np.sqrt, on the squares of rationals (the only arguments the correlations
\* of DepValues lead to).
ISqrt(n) == CHOOSE r \in 0 .. n : r * r = n
RSqrt(x) == <<ISqrt(x[1]), ISqrt(x[2])>>

DepMaxP == 5

\* Correlations whose 1 - c^2 is a square: 0, 3/5 and -4/5.
DepValues == {<<0, 1>>, <<3, 5>>, <<-4, 5>>}

\* The matrices dependency_network is checked on: every symmetric matrix
\* over DepValues up to 4 x 4, and the Toeplitz ones above that size.
DepMatrices(n) ==
    IF n <= 4 THEN SymMatrices(n, DepValues, ROne)
    ELSE ToeplitzMatrices(n, DepValues, ROne)

\* lines 305-306
calculate_partial_correlation(c, a, b, n) ==
    LET dem == RMul(RSub(ROne, RMul(c[a][n], c[a][n])),
                    RSub(ROne, RMul(c[n][b], c[n][b])))
    IN  RDiv(RSub(c[a][b], RMul(c[a][n], c[n][b])), RSqrt(dem))

\* lines 326-332: D starts as zeros and is filled for distinct i, j, k
FillD(c, n) ==
    [a \in Nodes(n) |-> [b \in Nodes(n) |-> [m \in Nodes(n) |->
        IF a = b \/ a = m \/ b = m THEN RZero
        ELSE RSub(c[a][b], calculate_partial_correlation(c, a, b, m))]]]

\* The sentinel loop left out.
SentinelSkipped(d, n) == d

\* lines 334-336: D[i, j, j] = 1
SetSentinel(d, n) ==
    [a \in Nodes(n) |-> [b \in Nodes(n) |-> [m \in Nodes(n) |->
        IF b = m THEN ROne ELSE d[a][b][m]]]]

\* D[i, i != ind, k].sum(): the entries j = 0, 1, ... with j # i, added up in
\* index order from j on.
RECURSIVE MaskedSum(_, _, _, _, _)
MaskedSum(d, a, m, j, n) ==
    IF j >= n THEN RZero
    ELSE RAdd(IF j # a THEN d[a][j][m] ELSE RZero, MaskedSum(d, a, m, j + 1, n))

\* lines 339-344
FilterD(d, n) ==
    [m \in Nodes(n) |-> [a \in Nodes(n) |->
        IF a = m THEN RZero
        ELSE RDiv(MaskedSum(d, a, m, 0, n), <<n - 1, 1>>)]]

DepInit ==
    /\ pc = "start"
    /\ err = "none"
    /\ p \in 1 .. DepMaxP
    /\ corr \in DepMatrices(p)
    /\ D = <<>>
    /\ dependency_network = <<>>
    /\ G = EmptyGraph
    /\ IdleTmfg /\ IdleSort /\ IdleKnn /\ IdleThr

\* lines 324-332
DepFill ==
    /\ pc = "start"
    /\ D' = FillD(corr, p)
    /\ pc' = "filled"
    /\ UNCHANGED <<err, p, corr, G, tmfgVars, sortVars, knnVars, thrVars,
                   dependency_network>>

\* lines 334-336
DepSentinel ==
    /\ pc = "filled"
    /\ D' = SetSentinel(D, p)
    /\ pc' = "sentinel"
    /\ UNCHANGED <<err, p, corr, G, tmfgVars, sortVars, knnVars, thrVars,
                   dependency_network>>

\* lines 339-346
DepFilter ==
    /\ pc = "sentinel"
    /\ dependency_network' = FilterD(D, p)
    /\ pc' = "done"
    /\ UNCHANGED <<err, p, corr, G, tmfgVars, sortVars, knnVars, thrVars, D>>

DepNext == DepFill \/ DepSentinel \/ DepFilter

DepSpec == DepInit /\ [][DepNext]_vars

(***************************************************************************)
(* Properties of mst                                                       *)
(***************************************************************************)
\* The weight corr gives the edge e.
CorrOf(c, e) ==
    LET a == CHOOSE x \in e : TRUE
        b == CHOOSE y \in e : y # a
    IN  c[a][b]

TreeWeight(c, T) == SumOver(T, [e \in T |-> CorrOf(c, e)])

SpanningTrees(n) ==
    {T \in SUBSET Pairs(Nodes(n)) :
        Cardinality(T) = n - 1 /\ Connected(Nodes(n), T)}

\* No edge closes a cycle: its end points are apart once it is taken out.
Acyclic(E) ==
    \A e \in E : \A a \in e : \A b \in e \ {a} : b \notin Reach({a}, E \ {e})

GraphWeight(g) == SumOver(Edges(g), g.weight)

CompSet(comps) == {comps[c] : c \in 1 .. Len(comps)}

IsPartition(comps, n) ==
    /\ \A c \in 1 .. Len(comps) : comps[c] # {}
    /\ \A c \in 1 .. Len(comps) : \A d \in 1 .. Len(comps) :
          c # d => comps[c] \cap comps[d] = {}
    /\ UNION CompSet(comps) = Nodes(n)

C9_Invariant ==
    pc \in {"loop", "done"} =>
        /\ IsPartition(components, p)
        /\ Len(components) = p - Cardinality(Edges(G))
        /\ \A a \in Nodes(p) : \A b \in Nodes(p) :
              _in_same_component(components, a, b) <=> b \in Reach({a}, Edges(G))

C9_Step ==
    pc = "loop" =>
        \/ /\ components' = components
           /\ G' = G
        \/ \E a \in Nodes(p) : \E b \in Nodes(p) \ {a} :
              \E ca \in CompSet(components) : \E cb \in CompSet(components) \ {ca} :
                 /\ a \in ca /\ b \in cb
                 /\ Edges(G') = Edges(G) \cup {{a, b}}
                 /\ {a, b} \notin Edges(G)
                 /\ CompSet(components') =
                        (CompSet(components) \ {ca, cb}) \cup {ca \cup cb}
                 /\ Len(components') = Len(components) - 1

\* C9: in every state of the loop of mst the components list is a partition
\* of 0..p-1 (non-empty, pairwise disjoint sets covering every node), it has
\* p minus the number of accepted edges sets, two nodes share a set iff the
\* tree built so far connects them, and an iteration either leaves list and
\* graph alone or accepts one edge (i, j) and replaces exactly the sets of i
\* and of j by their union.
C9_ComponentsArePartition == [](C9_Invariant) /\ [][C9_Step]_vars

\* Two edges have been accepted on 4 nodes: two sets are left.
C9_Witness ==
    /\ pc = "loop" /\ p = 4
    /\ Cardinality(Edges(G)) = 2
    /\ Len(components) = 2
    /\ \E c \in 1 .. 2 : Cardinality(components[c]) = 3

(***************************************************************************)
(* Properties of tmfg                                                      *)
(***************************************************************************)
\* C1: for every p >= 4 and every symmetric matrix, negative entries
\* included, and either value of absolute, tmfg returns normally a graph of
\* exactly p nodes and 3p-6 edges that is connected and planar, and for
\* p = 4 the complete graph on 4 nodes.
C1_TmfgReturnsTriangulation ==
    (p >= 4 /\ pc \in {"done", "raised"}) =>
        /\ pc = "done"
        /\ err = "none"
        /\ G.nodes = Nodes(p)
        /\ Cardinality(Edges(G)) = 3 * p - 6
        /\ Connected(Nodes(p), Edges(G))
        /\ check_planarity(G)
        /\ (p = 4 => Edges(G) = Pairs(Nodes(4)))

\* C6: for every p < 4, and either value of absolute, tmfg fails with the
\* dedicated invalid-input error and returns no graph.
C6_TmfgSmallInputIsInvalidInput ==
    (p < 4 /\ pc # "start") => (pc = "raised" /\ err = "InvalidInput")

\* The nodes placed so far, once the tetrahedron is in.
Seeded == Cardinality(starters_set) >= 4

C8_Invariant ==
    Seeded =>
        LET n == Cardinality(starters_set)
        IN  /\ Cardinality(faces) = 2 * n - 4
            /\ \A f \in faces :
                  /\ Cardinality(f) = 3
                  /\ f \subseteq starters_set
                  /\ Pairs(f) \subseteq Edges(G)
            /\ Cardinality(Edges(G)) = 3 * n - 6
            /\ not_in = Nodes(p) \ starters_set

C8_Step ==
    (Seeded /\ (starters_set' # starters_set \/ faces' # faces \/ G' # G)) =>
        \E f \in faces : \E new \in not_in :
            /\ starters_set' = starters_set \cup {new}
            /\ faces \ faces' = {f}
            /\ faces' \ faces = {{new} \cup e : e \in Pairs(f)}
            /\ Cardinality(faces' \ faces) = 3
            /\ Edges(G') \ Edges(G) = {{new, m} : m \in f}
            /\ Edges(G) \subseteq Edges(G')

\* C8: once the tetrahedron is registered, with n nodes placed: there are
\* exactly 2n-4 faces, every face is 3 distinct placed nodes whose pairs are
\* all edges, the graph has exactly 3n-6 edges, and an insertion removes
\* exactly the face it consumes and adds exactly the 3 faces of the new node
\* with each pair of that face's members.
C8_FacesTileTheTriangulation == [](C8_Invariant) /\ [][C8_Step]_vars

\* Two insertions done: 6 nodes placed, 8 faces.
C8_Witness ==
    /\ pc = "done" /\ p = 6
    /\ Cardinality(starters_set) = 6
    /\ Cardinality(faces) = 8

\* The state right after the tetrahedron is built.
JustSeeded == pc = "loop" /\ Cardinality(starters_set) = 4

\* C10 as claimed: the seeds are the first 4 nodes when nodes are ranked by
\* centrality, highest first, and among equal centralities the lower index
\* first.
C10_LowerIndexWinsTies ==
    JustSeeded =>
        \A s \in starters_set : \A t \in Nodes(p) \ starters_set :
            \/ degree_centrality[s] > degree_centrality[t]
            \/ degree_centrality[s] = degree_centrality[t] /\ s < t

\* C10 as amended: the seeds are 4 nodes of highest centrality: no node left
\* out is strictly more central than a seed.
C10_SeedsAreMostCentral ==
    JustSeeded =>
        \A s \in starters_set : \A t \in Nodes(p) \ starters_set :
            degree_centrality[s] >= degree_centrality[t]

\* A tie at the boundary of the top 4, and seeds of different centrality.
C10_Witness ==
    /\ JustSeeded
    /\ \E s \in starters_set : \E t \in Nodes(p) \ starters_set :
          degree_centrality[s] = degree_centrality[t]
    /\ \E s \in starters_set : \E t \in Nodes(p) \ starters_set :
          degree_centrality[s] > degree_centrality[t]

(***************************************************************************)
(* Properties of pmfg                                                      *)
(***************************************************************************)
\* C3 as claimed: for every p >= 1, at the end of every iteration and on
\* return, the graph of pmfg is planar and has at most 3p-6 edges.
C3_PlanarAtMost3pMinus6 ==
    pc \in {"loop", "done"} =>
        /\ check_planarity(G)
        /\ Cardinality(Edges(G)) <= 3 * p - 6

\* C3 as amended: the graph is planar for every p >= 1, and has at most
\* 3p-6 edges for every p >= 3 (for p = 1 and p = 2, where 3p-6 is -3 and 0,
\* it has at most p-1 edges).
C3_PlanarAtMost3pMinus6FromP3 ==
    pc \in {"loop", "done"} =>
        /\ check_planarity(G)
        /\ G.nodes = Nodes(p)
        /\ (p >= 3 => Cardinality(Edges(G)) <= 3 * p - 6)
        /\ (p < 3 => Cardinality(Edges(G)) <= p - 1)

\* pmfg returned 12 edges on 6 nodes after turning down a pair that would
\* have broken planarity.
C3_Witness ==
    /\ pc = "done" /\ p = 6
    /\ Cardinality(Edges(G)) = 12
    /\ \E v \in (0 .. (p * p - 1)) \ vals :
          /\ unravel_index(v, p)[1] # unravel_index(v, p)[2]
          /\ {unravel_index(v, p)[1], unravel_index(v, p)[2]} \notin Edges(G)

(***************************************************************************)
(* Properties of knn                                                       *)
(***************************************************************************)
\* C4 as claimed: every node of the graph knn returns has a degree between
\* k and 2k.
C4_DegreeBetweenKAnd2K ==
    pc = "done" =>
        \A v \in G.nodes : k <= Degree(G, v) /\ Degree(G, v) <= 2 * k

\* C4 as amended: every node of the graph knn returns has a degree between
\* k and p-1; for k >= 1 the nodes are 0..p-1, and for k = 0 the graph has
\* no node.
C4_DegreeBetweenKAndPMinus1 ==
    pc = "done" =>
        /\ \A v \in G.nodes : k <= Degree(G, v) /\ Degree(G, v) <= p - 1
        /\ G.nodes = (IF k >= 1 THEN Nodes(p) ELSE {})
        /\ Edges(G) \subseteq Pairs(Nodes(p))

\* A node that more than k others picked besides its own k picks.
C4_Witness ==
    /\ pc = "done" /\ k >= 1
    /\ \E v \in G.nodes : Degree(G, v) > 2 * k
    /\ \E v \in G.nodes : Degree(G, v) = k

(***************************************************************************)
(* Properties of threshold                                                 *)
(***************************************************************************)
\* C5 as claimed: for every matrix, threshold and pair of flags, applying
\* threshold twice gives, entry by entry, what applying it once gives.
C5_ThresholdIdempotent == pc = "done" => out2 = out1

SomeEntrySurvives == \E a \in Nodes(p) : \E b \in Nodes(p) : out1[a][b] # 0

\* C5 as amended: applying threshold twice gives what applying it once
\* gives, unless binary is set, the threshold is above 1 and some entry
\* survives the first application; then that entry is 1 after the first
\* application and 0 after the second.
C5_ThresholdIdempotentUnlessBinaryAboveOne ==
    pc = "done" =>
        IF binary /\ threshold > ThrOne /\ SomeEntrySurvives
        THEN /\ out2 # out1
             /\ \A a \in Nodes(p) : \A b \in Nodes(p) :
                   out1[a][b] \in {0, ThrOne} /\ out2[a][b] = 0
        ELSE out2 = out1

\* Both applications done on a matrix with an entry zeroed and an entry
\* made 1, and a second application that changed nothing.
C5_Witness ==
    /\ pc = "done" /\ binary /\ p = 2
    /\ out2 = out1
    /\ \E a \in Nodes(p) : \E b \in Nodes(p) : corr[a][b] # 0 /\ out1[a][b] = 0
    /\ \E a \in Nodes(p) : \E b \in Nodes(p) :
          corr[a][b] \notin {0, ThrOne} /\ out1[a][b] = ThrOne

(***************************************************************************)
(* Properties of dependency_network                                        *)
(***************************************************************************)
RECURSIVE RSumOver(_, _)
RSumOver(S, f) ==
    IF S = {} THEN RZero
    ELSE LET x == CHOOSE y \in S : TRUE
         IN  RAdd(f[x], RSumOver(S \ {x}, f))

\* corr[i, j] - partialcorr(i, j | k)
Genuine(a, b, m) == RSub(corr[a][b], calculate_partial_correlation(corr, a, b, m))

\* C7: for all k # i, dependency_network(C)[k, i] is 1/(p-1) times the sum
\* of the sentinel 1 (the term j = k) and of the p-2 terms
\* C[i,j] - partialcorr(i,j|k) with j different from i and k; the entries
\* [k, k] are 0.
C7_DependencyNetworkFormula ==
    pc = "done" =>
        \A m \in Nodes(p) : \A a \in Nodes(p) :
            dependency_network[m][a] =
                IF m = a THEN RZero
                ELSE LET J == Nodes(p) \ {a, m}
                     IN  RDiv(RAdd(ROne, RSumOver(J, [b \in J |-> Genuine(a, b, m)])),
                              <<p - 1, 1>>)

\* A 4 x 4 result in which conditioning matters: an entry above and an entry
\* below the 1/(p-1) the sentinel alone gives.
C7_Witness ==
    /\ pc = "done" /\ p = 4
    /\ \E m \in Nodes(p) : \E a \in Nodes(p) \ {m} :
          dependency_network[m][a][1] * 3 > dependency_network[m][a][2]
    /\ \E m \in Nodes(p) : \E a \in Nodes(p) \ {m} :
          dependency_network[m][a][1] * 3 < dependency_network[m][a][2]

====
